---- MODULE Spec2Model ----
(***************************************************************************)
(* PyCNC, cnc/gmachine.py: the GMachine command dispatcher and its motion  *)
(* planner (linear moves, circular moves with the quadrant walk, home).    *)
(*                                                                         *)
(* Lengths are integers.  One length unit is 1/5 of the unit a coordinate  *)
(* word is written in, so that both unit multipliers are integers:         *)
(* _convertCoordinates = 1.0 is 5 and 25.4 is 127.  A stepper pulse of a   *)
(* linear axis is STEP length units.  The code computes in floating point  *)
(* millimetres; the model computes the same expressions exactly (square    *)
(* roots are kept symbolic, see Surd), so it is the code without rounding  *)
(* noise.                                                                  *)
(***************************************************************************)
EXTENDS Integers, Sequences, FiniteSets, TLC

\* ------------------------------------------------------------- config
\* cnc/config.py is not part of the sources at hand.  The table and the
\* pulse lengths are scaled down to a few pulses per axis.
STEP == 20
STEP_E == 50
TABLE_SIZE_X_MM == 60
TABLE_SIZE_Y_MM == 60
TABLE_SIZE_Z_MM == 40
STEPPER_MAX_VELOCITY_MM_PER_MIN == 1800
SPINDLE_MAX_RPM == 10000

\* _convertCoordinates: 1.0 and 25.4 in fifths
CONV_MM == 5
CONV_INCH == 127

PLANE_XY == "XY"
PLANE_ZX == "ZX"
PLANE_YZ == "YZ"
CW == "CW"
CCW == "CCW"

\* ------------------------------------------------------- Coordinates
Coordinates(x, y, z, e) == [x |-> x, y |-> y, z |-> z, e |-> e]

Origin == Coordinates(0, 0, 0, 0)

Add(a, b) == Coordinates(a.x + b.x, a.y + b.y, a.z + b.z, a.e + b.e)

Sub(a, b) == Coordinates(a.x - b.x, a.y - b.y, a.z - b.z, a.e - b.e)

is_zero(a) == a.x = 0 /\ a.y = 0 /\ a.z = 0 /\ a.e = 0

is_in_aabb(p, p1, p2) ==
    /\ p1.x <= p.x /\ p.x <= p2.x
    /\ p1.y <= p.y /\ p.y <= p2.y
    /\ p1.z <= p.z /\ p.z <= p2.z
    /\ p1.e <= p.e /\ p.e <= p2.e

\* The multiples of base nearest to v.  A value exactly half way between two
\* multiples has two: which one round() returns depends on the interpreter
\* (Python 2 rounds half away from zero, Python 3 half to even).
RoundTo(v, base) ==
    LET lo == v \div base
        rem == v % base
    IN  IF 2 * rem < base THEN {lo * base}
        ELSE IF 2 * rem > base THEN {(lo + 1) * base}
        ELSE {lo * base, (lo + 1) * base}

\* Coordinates.round with the four stepper resolutions
round(a) ==
    { Coordinates(x, y, z, e) :
        x \in RoundTo(a.x, STEP), y \in RoundTo(a.y, STEP),
        z \in RoundTo(a.z, STEP), e \in RoundTo(a.e, STEP_E) }

\* ------------------------------------------------------------ exceptions
NoExc == [kind |-> "none", msg |-> ""]

GMachineException(msg) == [kind |-> "GMachineException", msg |-> msg]

ZeroDivisionError == [kind |-> "ZeroDivisionError", msg |-> "float division by zero"]

\* ---------------------------------------------------- a call in progress
\* st: the machine's fields; hw: the hardware layer calls made so far, in
\* order; exc: the exception that ended the call, if any.
Enter(st) == [st |-> st, hw |-> <<>>, exc |-> NoExc, answer |-> [kind |-> "None"]]

Raise(c, exc) == [c EXCEPT !.exc = exc]

Hal(c, call) == [c EXCEPT !.hw = Append(@, call)]

PulseGeneratorLinear(delta, velocity) ==
    [kind |-> "linear", delta |-> delta, velocity |-> velocity]

PulseGeneratorCircular(circle_end, radius, plane, direction, velocity) ==
    [kind |-> "circular", delta |-> circle_end, radius |-> radius,
     plane |-> plane, direction |-> direction, velocity |-> velocity]

hal_move(c, gen) == Hal(c, [op |-> "move", gen |-> gen])

\* ------------------------------------------------------------ linear
OutOfArea == GMachineException("out of effective area")

\* A variant of check_delta that forgets the lower corner of the table
check_delta_upper_only(st, delta) ==
    LET pos == Add(st.position, delta)
    IN  /\ pos.x <= TABLE_SIZE_X_MM /\ pos.y <= TABLE_SIZE_Y_MM
        /\ pos.z <= TABLE_SIZE_Z_MM /\ pos.e <= 0

check_delta(st, delta) ==
    is_in_aabb(Add(st.position, delta), Origin,
               Coordinates(TABLE_SIZE_X_MM, TABLE_SIZE_Y_MM, TABLE_SIZE_Z_MM, 0))

\* A variant of _move_linear without the early return on a zero delta
move_linear_always_dispatch(c, delta, velocity) ==
    IF ~check_delta(c.st, delta) THEN Raise(c, OutOfArea)
    ELSE LET d == hal_move(c, PulseGeneratorLinear(delta, velocity))
         IN  [d EXCEPT !.st.position = Add(c.st.position, delta)]

\* _move_linear after the rounding of delta
move_linear_rounded(c, delta, velocity) ==
    IF is_zero(delta) THEN c
    ELSE IF ~check_delta(c.st, delta) THEN Raise(c, OutOfArea)
    ELSE LET d == hal_move(c, PulseGeneratorLinear(delta, velocity))
         IN  [d EXCEPT !.st.position = Add(c.st.position, delta)]

move_linear(c, delta, velocity) ==
    { move_linear_rounded(c, d, velocity) : d \in round(delta) }

\* ------------------------------------------------------------ circular
Abs(n) == IF n < 0 THEN -n ELSE n

Sgn(n) == IF n < 0 THEN -1 ELSE IF n > 0 THEN 1 ELSE 0

\* The real number base + sgn * sqrt(num / den), with den > 0 and
\* sqrt(num / den) <= lim: what math.sqrt and math.copysign produce from
\* integer lengths.
Surd(base, sgn, num, den, lim) ==
    [base |-> base, sgn |-> sgn, num |-> num, den |-> den, lim |-> lim]

\* -1, 0 or 1: the sign of a Surd
SurdSgn(v) ==
    IF v.sgn = 0 \/ v.num = 0 THEN Sgn(v.base)
    ELSE IF v.sgn > 0
         THEN (IF v.base >= 0 \/ v.num > v.base * v.base * v.den THEN 1
               ELSE IF v.num = v.base * v.base * v.den THEN 0 ELSE -1)
         ELSE (IF v.base <= 0 \/ v.num > v.base * v.base * v.den THEN -1
               ELSE IF v.num = v.base * v.base * v.den THEN 0 ELSE 1)

\* The multiples of base nearest to the Surd v: the k * base with
\* |v - k * base| <= base / 2, decided on squares.
RoundSurdTo(v, base) ==
    LET s == IF v.num = 0 THEN 0 ELSE v.sgn
        lo == ((v.base - v.lim) \div base) - 1
        hi == ((v.base + v.lim) \div base) + 1
        Near(k) ==
            LET c == k * base - v.base
            IN  IF s = 0 THEN 2 * Abs(c) <= base
                ELSE LET t == s * c
                     IN  /\ \/ 2 * t - base <= 0
                            \/ (2 * t - base) * (2 * t - base) * v.den <= 4 * v.num
                         /\ 2 * t + base >= 0
                         /\ 4 * v.num <= (2 * t + base) * (2 * t + base) * v.den
    IN  { k * base : k \in { j \in lo..hi : Near(j) } }

quarter(pa, pb) ==
    IF pa >= 0 /\ pb >= 0 THEN 1
    ELSE IF pa < 0 /\ pb >= 0 THEN 2
    ELSE IF pa < 0 /\ pb < 0 THEN 3
    ELSE 4

\* sqrt(r2) > t
RootGt(r2, t) == t < 0 \/ r2 > t * t

\* is_raise of one quarter transition pq -> q; g holds the arguments of
\* __adjust_circle and r2 = ra * ra + rb * rb
is_raise(pq, q, g) ==
    IF (pq = 1 /\ q = 4) \/ (pq = 4 /\ q = 1) THEN RootGt(g.r2, g.ma - g.pa - g.ra)
    ELSE IF (pq = 1 /\ q = 2) \/ (pq = 2 /\ q = 1) THEN RootGt(g.r2, g.mb - g.pb - g.rb)
    ELSE IF (pq = 2 /\ q = 3) \/ (pq = 3 /\ q = 2) THEN RootGt(g.r2, g.pa + g.ra)
    ELSE IF (pq = 3 /\ q = 4) \/ (pq = 4 /\ q = 3) THEN RootGt(g.r2, g.pb + g.rb)
    ELSE FALSE

next_quarter(q, direction) ==
    LET n == IF direction = CW THEN q - 1 ELSE q + 1
    IN  IF n <= 0 THEN 4 ELSE IF n >= 5 THEN 1 ELSE n

\* A variant of the loop that runs range(0, 3)
RECURSIVE quarter_walk_three(_, _, _, _, _)
quarter_walk_three(i, pq, eq, direction, g) ==
    IF i >= 3 THEN FALSE
    ELSE LET q == next_quarter(pq, direction)
         IN  IF q = eq THEN FALSE
             ELSE IF is_raise(pq, q, g) THEN TRUE
             ELSE quarter_walk_three(i + 1, q, eq, direction, g)

\* The loop "for _ in range(0, 4)" from its iteration i on, pq the quarter
\* reached so far: TRUE when it raises.
RECURSIVE quarter_walk(_, _, _, _, _)
quarter_walk(i, pq, eq, direction, g) ==
    IF i >= 4 THEN FALSE
    ELSE LET q == next_quarter(pq, direction)
         IN  IF q = eq THEN FALSE
             ELSE IF is_raise(pq, q, g) THEN TRUE
             ELSE quarter_walk(i + 1, q, eq, direction, g)

\* The end quarter: 5 for a full circle
end_quarter(da, db, ra, rb) ==
    IF da = 0 /\ db = 0 THEN 5
    ELSE quarter(Sgn(da - ra), IF db - rb < 0 THEN -1 ELSE 1)

\* A variant of __adjust_circle without the test of r == 0
adjust_circle_any_radius(da, db, ra, rb, direction, pa, pb, ma, mb) ==
    LET r2 == ra * ra + rb * rb
        g == [r2 |-> r2, pa |-> pa, pb |-> pb, ra |-> ra, rb |-> rb,
              ma |-> ma, mb |-> mb]
        full == da = 0 /\ db = 0
        A == Abs(da - ra)
        B == Abs(db - rb)
        lim == Abs(ra) + Abs(rb)
        none == Surd(0, 0, 0, 1, 0)
    IN  IF ~full /\ da - ra = 0
        THEN [exc |-> ZeroDivisionError, ea |-> none, eb |-> none]
        ELSE IF quarter_walk(0, quarter(-ra, -rb), end_quarter(da, db, ra, rb),
                             direction, g)
        THEN [exc |-> OutOfArea, ea |-> none, eb |-> none]
        ELSE IF full
        THEN [exc |-> NoExc, ea |-> Surd(da, 0, 0, 1, 0), eb |-> Surd(db, 0, 0, 1, 0)]
        ELSE [exc |-> NoExc,
              ea |-> Surd(ra, Sgn(da - ra), r2 * A, A + B, lim),
              eb |-> Surd(rb, IF db - rb < 0 THEN -1 ELSE 1, r2 * B, A + B, lim)]

\* __adjust_circle: [exc, ea, eb], ea and eb Surds
adjust_circle(da, db, ra, rb, direction, pa, pb, ma, mb) ==
    LET r2 == ra * ra + rb * rb
        g == [r2 |-> r2, pa |-> pa, pb |-> pb, ra |-> ra, rb |-> rb,
              ma |-> ma, mb |-> mb]
        sq == quarter(-ra, -rb)
        full == da = 0 /\ db = 0
        A == Abs(da - ra)
        B == Abs(db - rb)
        lim == Abs(ra) + Abs(rb)
        none == Surd(0, 0, 0, 1, 0)
    IN  IF r2 = 0
        THEN [exc |-> GMachineException("circle radius is zero"),
              ea |-> none, eb |-> none]
        ELSE IF ~full /\ da - ra = 0
        THEN [exc |-> ZeroDivisionError, ea |-> none, eb |-> none]
        ELSE IF quarter_walk(0, sq, end_quarter(da, db, ra, rb), direction, g)
        THEN [exc |-> OutOfArea, ea |-> none, eb |-> none]
        ELSE IF full
        THEN [exc |-> NoExc, ea |-> Surd(da, 0, 0, 1, 0), eb |-> Surd(db, 0, 0, 1, 0)]
        ELSE [exc |-> NoExc,
              ea |-> Surd(ra, Sgn(da - ra), r2 * A, A + B, lim),
              eb |-> Surd(rb, IF db - rb < 0 THEN -1 ELSE 1, r2 * B, A + B, lim)]

\* The two axes of a plane, in the order _circular passes them, and the
\* table size of an axis
plane_axes(plane) ==
    IF plane = PLANE_XY THEN <<"x", "y">>
    ELSE IF plane = PLANE_YZ THEN <<"y", "z">>
    ELSE <<"z", "x">>

table_size(axis) ==
    IF axis = "x" THEN TABLE_SIZE_X_MM
    ELSE IF axis = "y" THEN TABLE_SIZE_Y_MM
    ELSE TABLE_SIZE_Z_MM

\* A variant of _circular that commits the circle end alone
circular_commits_circle_end(c, delta, radius, velocity, direction) ==
    LET a == plane_axes(c.st.plane)[1]
        b == plane_axes(c.st.plane)[2]
        adj == adjust_circle(delta[a], delta[b], radius[a], radius[b], direction,
                             c.st.position[a], c.st.position[b],
                             table_size(a), table_size(b))
    IN  IF adj.exc # NoExc THEN {Raise(c, adj.exc)}
        ELSE
        { LET circle_end == [[delta EXCEPT ![a] = ea] EXCEPT ![b] = eb]
              c1 == hal_move(c, PulseGeneratorCircular(circle_end, radius,
                                   c.st.plane, direction, velocity))
              linear_delta == Sub(delta, circle_end)
              c2 == IF ~is_zero(linear_delta)
                    THEN hal_move(c1, PulseGeneratorLinear(linear_delta, velocity))
                    ELSE c1
          IN  [c2 EXCEPT !.st.position = Add(c.st.position, circle_end)] :
            ea \in RoundSurdTo(adj.ea, STEP), eb \in RoundSurdTo(adj.eb, STEP) }

\* _circular from the call of __adjust_circle on
circular_checked(c, delta, radius, velocity, direction) ==
    LET a == plane_axes(c.st.plane)[1]
        b == plane_axes(c.st.plane)[2]
        adj == adjust_circle(delta[a], delta[b], radius[a], radius[b], direction,
                             c.st.position[a], c.st.position[b],
                             table_size(a), table_size(b))
    IN  IF adj.exc # NoExc THEN {Raise(c, adj.exc)}
        ELSE
        { LET circle_end == [[delta EXCEPT ![a] = ea] EXCEPT ![b] = eb]
              c1 == hal_move(c, PulseGeneratorCircular(circle_end, radius,
                                   c.st.plane, direction, velocity))
              linear_delta == Sub(delta, circle_end)
              c2 == IF ~is_zero(linear_delta)
                    THEN hal_move(c1, PulseGeneratorLinear(linear_delta, velocity))
                    ELSE c1
          IN  [c2 EXCEPT !.st.position =
                    Add(Add(c.st.position, circle_end), linear_delta)] :
            ea \in RoundSurdTo(adj.ea, STEP), eb \in RoundSurdTo(adj.eb, STEP) }

\* A variant of _circular without its __check_delta
circular_no_check_delta(c, delta, radius, velocity, direction) ==
    circular_checked(c, delta, radius, velocity, direction)

\* _circular after the rounding of delta and radius
circular_rounded(c, delta, radius, velocity, direction) ==
    IF ~check_delta(c.st, delta) THEN {Raise(c, OutOfArea)}
    ELSE circular_checked(c, delta, radius, velocity, direction)

circular(c, delta, radius, velocity, direction) ==
    UNION { circular_rounded(c, d, r, velocity, direction) :
              d \in round(delta), r \in round(radius) }

\* ---------------------------------------------------------------- home
\* The two statements of home
home_z(c) ==
    move_linear(c, Coordinates(0, 0, -c.st.position.z, 0),
                STEPPER_MAX_VELOCITY_MM_PER_MIN)

home_xy(c) ==
    move_linear(c, Coordinates(-c.st.position.x, -c.st.position.y, 0, 0),
                STEPPER_MAX_VELOCITY_MM_PER_MIN)

\* A variant of home that zeroes X and Y before Z
home_xy_first(c) ==
    UNION { IF c1.exc = NoExc THEN home_z(c1) ELSE {c1} : c1 \in home_xy(c) }

\* The second _move_linear runs in the state the first one left; an
\* exception ends the call.
home(c) ==
    UNION { IF c1.exc = NoExc THEN home_xy(c1) ELSE {c1} : c1 \in home_z(c) }

\* --------------------------------------------------------------- GCode
\* The command record (cnc/gcode.py, not part of the sources at hand):
\* [c: the command or None, params: letter -> number, the letters present]
None == "None"

NoParams == [n \in {} |-> 0]

\* Every choice of some of the letters, each with one of the values
Params(letters, values) == UNION { [H -> values] : H \in SUBSET letters }

Merge(f, g) ==
    [n \in DOMAIN f \cup DOMAIN g |-> IF n \in DOMAIN f THEN f[n] ELSE g[n]]

command(gcode) == gcode.c

has(gcode, name) == name \in DOMAIN gcode.params

get(gcode, name, default) ==
    IF has(gcode, name) THEN gcode.params[name] ELSE default

has_coordinates(gcode) ==
    has(gcode, "X") \/ has(gcode, "Y") \/ has(gcode, "Z") \/ has(gcode, "E")

coordinates(gcode, default, multiply) ==
    Coordinates(IF has(gcode, "X") THEN gcode.params["X"] * multiply ELSE default.x,
                IF has(gcode, "Y") THEN gcode.params["Y"] * multiply ELSE default.y,
                IF has(gcode, "Z") THEN gcode.params["Z"] * multiply ELSE default.z,
                IF has(gcode, "E") THEN gcode.params["E"] * multiply ELSE default.e)

radius(gcode, default, multiply) ==
    Coordinates(IF has(gcode, "I") THEN gcode.params["I"] * multiply ELSE default.x,
                IF has(gcode, "J") THEN gcode.params["J"] * multiply ELSE default.y,
                IF has(gcode, "K") THEN gcode.params["K"] * multiply ELSE default.z,
                default.e)

\* ------------------------------------------------- spindle, fan, heaters
HEATER_EXTRUDER == "extruder"
HEATER_BED == "bed"
EXTRUDER_MAX_TEMPERATURE == 250
BED_MAX_TEMPERATURE == 100
MIN_TEMPERATURE == 40

hal_join(c) == Hal(c, [op |-> "join"])

\* A variant of _spindle without its hal.join()
spindle_unjoined(c, spindle_speed) ==
    Hal(c, [op |-> "spindle_control",
            percent |-> (100 * spindle_speed) \div SPINDLE_MAX_RPM])

spindle(c, spindle_speed) ==
    Hal(hal_join(c), [op |-> "spindle_control",
                      percent |-> (100 * spindle_speed) \div SPINDLE_MAX_RPM])

fan(c, state) ==
    [Hal(c, [op |-> "fan_control", state |-> state]) EXCEPT !.st.fan_state = state]

\* A variant of _heat that stops the running heater before it reads the sensor
heat_stop_first(c, heater, temperature, wait, env) ==
    LET c1 == IF heater \in DOMAIN c.st.heaters
              THEN [Hal(c, [op |-> "heater_stop", heater |-> heater,
                            target |-> c.st.heaters[heater].target])
                      EXCEPT !.st.heaters =
                        [h \in DOMAIN c.st.heaters \ {heater} |-> c.st.heaters[h]]]
              ELSE c
    IN  IF heater \notin env.readable
        THEN Raise(c1, GMachineException("can not measure temperature"))
        ELSE IF temperature # 0
        THEN Hal([c1 EXCEPT !.st.heaters =
                     [h \in DOMAIN c1.st.heaters \cup {heater} |->
                        IF h = heater THEN [target |-> temperature]
                        ELSE c1.st.heaters[h]]],
                 [op |-> "heater_start", heater |-> heater, target |-> temperature])
        ELSE c1

\* A variant of _heat that replaces a running heater without stopping it
heat_replace_unstopped(c, heater, temperature, wait, env) ==
    IF heater \notin env.readable
    THEN Raise(c, GMachineException("can not measure temperature"))
    ELSE IF temperature # 0
    THEN Hal([c EXCEPT !.st.heaters =
                 [h \in DOMAIN c.st.heaters \cup {heater} |->
                    IF h = heater THEN [target |-> temperature]
                    ELSE c.st.heaters[h]]],
             [op |-> "heater_start", heater |-> heater, target |-> temperature])
    ELSE IF heater \in DOMAIN c.st.heaters
    THEN [Hal(c, [op |-> "heater_stop", heater |-> heater,
                  target |-> c.st.heaters[heater].target])
            EXCEPT !.st.heaters =
              [h \in DOMAIN c.st.heaters \ {heater} |-> c.st.heaters[h]]]
    ELSE c

\* env.readable: the heaters whose sensor answers during this call
heat(c, heater, temperature, wait, env) ==
    IF heater \notin {HEATER_EXTRUDER, HEATER_BED}
    THEN Raise(c, GMachineException("unknown heater"))
    ELSE IF heater \notin env.readable
    THEN Raise(c, GMachineException("can not measure temperature"))
    ELSE
    LET c1 == IF heater \in DOMAIN c.st.heaters
              THEN [Hal(c, [op |-> "heater_stop", heater |-> heater,
                            target |-> c.st.heaters[heater].target])
                      EXCEPT !.st.heaters =
                        [h \in DOMAIN c.st.heaters \ {heater} |-> c.st.heaters[h]]]
              ELSE c
        c2 == IF temperature # 0
              THEN [Hal(c1, [op |-> "heater_start", heater |-> heater,
                             target |-> temperature])
                      EXCEPT !.st.heaters =
                        [h \in DOMAIN c1.st.heaters \cup {heater} |->
                           IF h = heater THEN [target |-> temperature]
                           ELSE c1.st.heaters[h]]]
              ELSE c1
    IN  IF temperature # 0 /\ wait
        THEN Hal(c2, [op |-> "heater_wait", heater |-> heater])
        ELSE c2

\* reset()
reset(st) ==
    [st EXCEPT !.velocity = 1000, !.spindle_rpm = 1000, !.pause = 0,
               !.local = Origin, !.convertCoordinates = CONV_MM,
               !.absoluteCoordinates = TRUE, !.plane = PLANE_XY]

\* ----------------------------------------------------------- do_command
\* A variant of the heater branch that holds the bed to the extruder's maximum
dispatch_heater_one_maximum(c, cmd, gcode, env) ==
    LET heater == IF cmd \in {"M104", "M109"} THEN HEATER_EXTRUDER
                  ELSE HEATER_BED
        t == get(gcode, "S", 0)
    IN  IF ~has(gcode, "S")
        THEN {Raise(c, GMachineException("temperature is not specified"))}
        ELSE IF (t > EXTRUDER_MAX_TEMPERATURE \/ t < MIN_TEMPERATURE) /\ t # 0
        THEN {Raise(c, GMachineException("bad temperature"))}
        ELSE {heat(c, heater, t, cmd \in {"M109", "M190"}, env)}

\* The branch of the heater commands M104, M109, M140 and M190
dispatch_heater(c, cmd, gcode, env) ==
    LET heater == IF cmd \in {"M104", "M109"} THEN HEATER_EXTRUDER
                  ELSE HEATER_BED
        wait == cmd \in {"M109", "M190"}
        t == get(gcode, "S", 0)
    IN  IF ~has(gcode, "S")
        THEN {Raise(c, GMachineException("temperature is not specified"))}
        ELSE IF /\ \/ heater = HEATER_EXTRUDER /\ t > EXTRUDER_MAX_TEMPERATURE
                   \/ heater = HEATER_BED /\ t > BED_MAX_TEMPERATURE
                   \/ t < MIN_TEMPERATURE
                /\ t # 0
        THEN {Raise(c, GMachineException("bad temperature"))}
        ELSE {heat(c, heater, t, wait, env)}

\* The if/elif chain of do_command: the calls in progress it can end in
dispatch(c, cmd, gcode, delta, rad, velocity, pause, env) ==
    IF cmd = "G0" THEN move_linear(c, delta, STEPPER_MAX_VELOCITY_MM_PER_MIN)
    ELSE IF cmd = "G1" THEN move_linear(c, delta, velocity)
    ELSE IF cmd = "G2" THEN circular(c, delta, rad, velocity, CW)
    ELSE IF cmd = "G3" THEN circular(c, delta, rad, velocity, CCW)
    ELSE IF cmd = "G4" THEN {Hal(hal_join(c), [op |-> "sleep", seconds |-> pause])}
    ELSE IF cmd = "G17" THEN {[c EXCEPT !.st.plane = PLANE_XY]}
    ELSE IF cmd = "G18" THEN {[c EXCEPT !.st.plane = PLANE_ZX]}
    ELSE IF cmd = "G19" THEN {[c EXCEPT !.st.plane = PLANE_YZ]}
    ELSE IF cmd = "G20" THEN {[c EXCEPT !.st.convertCoordinates = CONV_INCH]}
    ELSE IF cmd = "G21" THEN {[c EXCEPT !.st.convertCoordinates = CONV_MM]}
    ELSE IF cmd = "G28" THEN home(c)
    ELSE IF cmd = "G53" THEN {[c EXCEPT !.st.local = Origin]}
    ELSE IF cmd = "G90" THEN {[c EXCEPT !.st.absoluteCoordinates = TRUE]}
    ELSE IF cmd = "G91" THEN {[c EXCEPT !.st.absoluteCoordinates = FALSE]}
    ELSE IF cmd = "G92"
    THEN {[c EXCEPT !.st.local =
              Sub(c.st.position,
                  coordinates(gcode, Origin, c.st.convertCoordinates))]}
    ELSE IF cmd = "M3"
    THEN LET spindle_rpm == get(gcode, "S", c.st.spindle_rpm)
         IN  IF spindle_rpm < 0 \/ spindle_rpm > SPINDLE_MAX_RPM
             THEN {Raise(c, GMachineException("bad spindle speed"))}
             ELSE {[spindle(c, spindle_rpm) EXCEPT !.st.spindle_rpm = spindle_rpm]}
    ELSE IF cmd = "M5" THEN {spindle(c, 0)}
    ELSE IF cmd = "M2" \/ cmd = "M30" THEN {[c EXCEPT !.st = reset(c.st)]}
    ELSE IF cmd \in {"M104", "M109", "M140", "M190"}
    THEN dispatch_heater(c, cmd, gcode, env)
    ELSE IF cmd = "M105"
    THEN IF env.readable = {}
         THEN {Raise(c, GMachineException("can not measure temperature"))}
         ELSE {[c EXCEPT !.answer = [kind |-> "temperature",
                                     readable |-> env.readable]]}
    ELSE IF cmd = "M106"
    THEN {fan(c, get(gcode, "S", 1) # 0)}
    ELSE IF cmd = "M107" THEN {fan(c, FALSE)}
    ELSE IF cmd = "M111" THEN {c}
    ELSE IF cmd = "M114"
    THEN {[hal_join(hal_join(c)) EXCEPT !.answer =
              [kind |-> "position", p |-> c.st.position]]}
    ELSE IF cmd = None THEN {c}
    ELSE {Raise(c, GMachineException("unknown command"))}

\* "read command" and "read parameters" of do_command
\* A variant of read_command in which coordinate words make any line a G1
read_command_coordinates_first(gcode) ==
    IF has_coordinates(gcode) THEN "G1" ELSE command(gcode)

read_command(gcode) ==
    IF command(gcode) = None /\ has_coordinates(gcode) THEN "G1" ELSE command(gcode)

read_delta(st, gcode) ==
    IF st.absoluteCoordinates
    THEN Sub(Add(coordinates(gcode, st.position, st.convertCoordinates), st.local),
             st.position)
    ELSE coordinates(gcode, Origin, st.convertCoordinates)

\* A variant of do_command that saves F and P before the dispatch
do_command_saves_first(st, gcode, env) ==
    LET velocity == get(gcode, "F", st.velocity)
        pause == get(gcode, "P", st.pause)
        c == Enter([st EXCEPT !.velocity = velocity, !.pause = pause])
    IN  IF velocity <= 0 \/ velocity > STEPPER_MAX_VELOCITY_MM_PER_MIN
        THEN {Raise(Enter(st), GMachineException("bad feed speed"))}
        ELSE IF pause < 0
        THEN {Raise(Enter(st), GMachineException("bad delay"))}
        ELSE dispatch(c, read_command(gcode), gcode, read_delta(st, gcode),
                      radius(gcode, Origin, st.convertCoordinates),
                      velocity, pause, env)

do_command(st, gcode, env) ==
    LET c == Enter(st)
        cmd == read_command(gcode)
        delta == read_delta(st, gcode)
        velocity == get(gcode, "F", st.velocity)
        pause == get(gcode, "P", st.pause)
        rad == radius(gcode, Origin, st.convertCoordinates)
    IN  IF velocity <= 0 \/ velocity > STEPPER_MAX_VELOCITY_MM_PER_MIN
        THEN {Raise(c, GMachineException("bad feed speed"))}
        ELSE IF pause < 0
        THEN {Raise(c, GMachineException("bad delay"))}
        ELSE { IF d.exc = NoExc
               THEN [d EXCEPT !.st.velocity = velocity, !.st.pause = pause]
               ELSE d :
               d \in dispatch(c, cmd, gcode, delta, rad, velocity, pause, env) }

\* position(): block until the hardware is idle, answer the position
position_query(c) ==
    [hal_join(c) EXCEPT !.answer = [kind |-> "position", p |-> c.st.position]]

\* A variant of release that shuts the hardware layer down before it stops
\* the heaters
release_rest_deinit_first(c) ==
    LET c1 == Hal(spindle(c, 0), [op |-> "deinit"])
        hs == DOMAIN c1.st.heaters
        stop(h) == [op |-> "heater_stop", heater |-> h,
                    target |-> c1.st.heaters[h].target]
        stops == IF hs = {} THEN {<<>>}
                 ELSE IF Cardinality(hs) = 1
                 THEN {<<stop(CHOOSE h \in hs : TRUE)>>}
                 ELSE {<<stop(HEATER_EXTRUDER), stop(HEATER_BED)>>,
                       <<stop(HEATER_BED), stop(HEATER_EXTRUDER)>>}
    IN  { [c1 EXCEPT !.hw = @ \o q] : q \in stops }

\* release(): home, spindle off, stop every heater of the map, hal.deinit
release_rest(c) ==
    LET c1 == spindle(c, 0)
        hs == DOMAIN c1.st.heaters
        stop(h) == [op |-> "heater_stop", heater |-> h,
                    target |-> c1.st.heaters[h].target]
        \* the dictionary is walked in either order
        stops == IF hs = {} THEN {<<>>}
                 ELSE IF Cardinality(hs) = 1
                 THEN {<<stop(CHOOSE h \in hs : TRUE)>>}
                 ELSE {<<stop(HEATER_EXTRUDER), stop(HEATER_BED)>>,
                       <<stop(HEATER_BED), stop(HEATER_EXTRUDER)>>}
    IN  { Hal([c1 EXCEPT !.hw = @ \o q], [op |-> "deinit"]) : q \in stops }

release(c) ==
    UNION { IF c1.exc = NoExc THEN release_rest(c1) ELSE {c1} : c1 \in home(c) }

\* -------------------------------------------------------- hardware layer
\* The hardware layer executes motion segments on its own: pending is the
\* number of segments enqueued and not yet executed.  running[h] is the
\* number of heater handles of h that were started and not stopped.
hal_apply(h, call) ==
    IF call.op = "move" THEN [h EXCEPT !.pending = @ + 1]
    ELSE IF call.op = "join" THEN [h EXCEPT !.pending = 0]
    ELSE IF call.op = "heater_start"
    THEN [h EXCEPT !.running[call.heater] = @ + 1]
    ELSE IF call.op = "heater_stop"
    THEN [h EXCEPT !.running[call.heater] = IF @ > 0 THEN @ - 1 ELSE 0]
    ELSE h

\* The hardware after the first n calls of hw
RECURSIVE hal_run(_, _, _)
hal_run(h, hw, n) ==
    IF n = 0 THEN h ELSE hal_apply(hal_run(h, hw, n - 1), hw[n])

\* ================================================================ state
VARIABLES position, velocity, spindle_rpm, pause, local, convertCoordinates,
          absoluteCoordinates, plane, fan_state, heaters, pc, last, calls,
          pending, running

vars == <<position, velocity, spindle_rpm, pause, local, convertCoordinates,
          absoluteCoordinates, plane, fan_state, heaters, pc, last, calls,
          pending, running>>

\* The fields of the GMachine object
Self ==
    [position |-> position, velocity |-> velocity, spindle_rpm |-> spindle_rpm,
     pause |-> pause, local |-> local, convertCoordinates |-> convertCoordinates,
     absoluteCoordinates |-> absoluteCoordinates, plane |-> plane,
     fan_state |-> fan_state, heaters |-> heaters]

\* The hardware layer and the heater handles
Hardware == [pending |-> pending, running |-> running]

\* No call has returned since the caller last looked
NoCall == [call |-> "none"]

\* __init__: the fields after reset()
Init ==
    /\ position = Origin
    /\ velocity = 1000
    /\ spindle_rpm = 1000
    /\ pause = 0
    /\ local = Origin
    /\ convertCoordinates = CONV_MM
    /\ absoluteCoordinates = TRUE
    /\ plane = PLANE_XY
    /\ fan_state = FALSE
    /\ heaters = [h \in {} |-> 0]
    /\ pc = "ready"
    /\ last = NoCall
    /\ calls = 0
    /\ pending = 0
    /\ running = [h \in {HEATER_EXTRUDER, HEATER_BED} |-> 0]

\* A call ends: the fields are as the call left them, and last tells what
\* the call was, the state it started in, the hardware calls it made and
\* how it ended.
Finish(call, gcode, c) ==
    /\ position' = c.st.position
    /\ velocity' = c.st.velocity
    /\ spindle_rpm' = c.st.spindle_rpm
    /\ pause' = c.st.pause
    /\ local' = c.st.local
    /\ convertCoordinates' = c.st.convertCoordinates
    /\ absoluteCoordinates' = c.st.absoluteCoordinates
    /\ plane' = c.st.plane
    /\ fan_state' = c.st.fan_state
    /\ heaters' = c.st.heaters
    /\ pc' = "returned"
    /\ pending' = hal_run(Hardware, c.hw, Len(c.hw)).pending
    /\ running' = hal_run(Hardware, c.hw, Len(c.hw)).running
    /\ last' = [call |-> call, gcode |-> gcode, before |-> Self,
                hardware |-> Hardware,
                hw |-> c.hw, exc |-> c.exc, answer |-> c.answer]

\* do_command(gcode) runs to its return or its exception
DoCommand(gcode, env) ==
    /\ pc = "ready"
    /\ \E c \in do_command(Self, gcode, env) : Finish("do_command", gcode, c)

\* home() called directly
Home ==
    /\ pc = "ready"
    /\ \E c \in home(Enter(Self)) : Finish("home", [c |-> None, params |-> NoParams], c)

\* position() called directly
Position ==
    /\ pc = "ready"
    /\ Finish("position", [c |-> None, params |-> NoParams],
              position_query(Enter(Self)))

\* release(): the machine is not used afterwards
Release ==
    /\ pc = "ready"
    /\ \E c \in release(Enter(Self)) :
          Finish("release", [c |-> None, params |-> NoParams], c)

\* The caller takes the answer or the exception; the next call can start,
\* unless the call was release()
Return ==
    /\ pc = "returned"
    /\ pc' = IF last.call = "release" THEN "released" ELSE "ready"
    /\ last' = NoCall
    /\ UNCHANGED <<position, velocity, spindle_rpm, pause, local,
                   convertCoordinates, absoluteCoordinates, plane, fan_state,
                   heaters, pending, running>>

\* The hardware layer finishes the oldest segment of its queue
HalExecute ==
    /\ pc = "ready"
    /\ pending > 0
    /\ pending' = pending - 1
    /\ UNCHANGED <<position, velocity, spindle_rpm, pause, local,
                   convertCoordinates, absoluteCoordinates, plane, fan_state,
                   heaters, pc, last, running>>

\* =============================================================== inputs
\* Coordinate words are whole pulses (4 word units a pulse) from one pulse
\* below the table to MaxWord pulses, one pulse past the longest axis; the
\* words 1 and 2 are a quarter and a half of a pulse.
MaxWord == 4
MaxRadius == 1
MaxCalls == 3

PulseWords == { 4 * k : k \in -1..MaxWord }
TargetWords == { 4 * k : k \in 0..MaxWord }
RadiusWords == { 4 * k : k \in (-MaxRadius..MaxRadius) \ {0} }

\* Both sensors answer
AllReadable == [readable |-> {HEATER_EXTRUDER, HEATER_BED}]

GCode(c, params) == [c |-> c, params |-> params]

\* G1 lines over a wide choice of words; G0 and command-less lines over a
\* narrow one
LinearGCodes ==
    { GCode("G1", Merge(Merge(Merge(x, y), z), e)) :
        x \in Params({"X"}, PulseWords \cup {1, 2}),
        y \in Params({"Y"}, {-4, 4, 4 * MaxWord}),
        z \in Params({"Z"}, {-4, 4, 4 * MaxWord}),
        e \in Params({"E"}, {5, 12}) }
    \cup { GCode(c, Merge(p, f)) :
             c \in {"G0", "G1", None},
             p \in Params({"X", "Y", "Z"}, {4}),
             f \in Params({"F"}, {0, 500}) }

\* The letters of a plane's two axes
plane_letters(pl) ==
    IF pl = PLANE_XY THEN [coord |-> {"X", "Y"}, rad |-> {"I", "J"}]
    ELSE IF pl = PLANE_YZ THEN [coord |-> {"Y", "Z"}, rad |-> {"J", "K"}]
    ELSE [coord |-> {"Z", "X"}, rad |-> {"K", "I"}]

\* The targets of arcs: every pulse of the longest axis and one pulse past it
ArcTargetWords == { 4 * k : k \in 0..(TABLE_SIZE_X_MM \div STEP + 1) }

\* Arcs in the plane pl: every target and centre offset in the plane, and
\* a narrow choice over all letters (a third axis, the extruder, a centre
\* offset out of the plane)
ArcGCodes(pl) ==
    { GCode(c, Merge(t, r)) :
        c \in {"G2", "G3"},
        t \in [plane_letters(pl).coord -> ArcTargetWords],
        r \in Params(plane_letters(pl).rad, RadiusWords) }
    \cup { GCode(c, Merge(t, r)) :
             c \in {"G2", "G3"},
             t \in { Merge(a, e) : a \in Params({"X", "Y", "Z"}, {4}),
                                   e \in Params({"E"}, {12}) },
             r \in Params({"I", "J", "K"}, {4}) }

ArcTable == [pl \in {PLANE_XY, PLANE_YZ, PLANE_ZX} |-> ArcGCodes(pl)]

\* G1 lines along one axis: enough to reach every point of the table
ShortLinearGCodes ==
    { GCode("G1", p) : p \in UNION { [{n} -> TargetWords] : n \in {"X", "Y", "Z"} } }

PlaneGCodes == { GCode(c, NoParams) : c \in {"G17", "G18", "G19"} }

ModeGCodes == { GCode(c, NoParams) : c \in {"G90", "G91"} }

\* ------------------------------------------------------- specifications
\* A call in a session of any length, and a call in a session of at most
\* MaxCalls calls
Unbounded(A) == A /\ UNCHANGED calls

Counted(A) == calls < MaxCalls /\ calls' = calls + 1 /\ A

\* A call made when the hardware has finished the motion of the earlier ones
WhenIdle(A) == pending = 0 /\ Unbounded(A)

\* Linear moves and home in both coordinate modes, to any depth
NextLinear ==
    \/ \E g \in LinearGCodes : WhenIdle(DoCommand(g, AllReadable))
    \/ \E g \in ModeGCodes : WhenIdle(DoCommand(g, AllReadable))
    \/ WhenIdle(DoCommand(GCode("G28", NoParams), AllReadable))
    \/ WhenIdle(Home)
    \/ Unbounded(Return)
    \/ Unbounded(HalExecute)

SpecLinear == Init /\ [][NextLinear]_vars

\* Arcs in the three planes from every point of the table, to any depth
NextArc ==
    \/ \E g \in ArcTable[plane] : WhenIdle(DoCommand(g, AllReadable))
    \/ \E g \in ShortLinearGCodes : WhenIdle(DoCommand(g, AllReadable))
    \/ \E g \in PlaneGCodes : WhenIdle(DoCommand(g, AllReadable))
    \/ WhenIdle(DoCommand(GCode("G28", NoParams), AllReadable))
    \/ WhenIdle(Home)
    \/ Unbounded(Return)
    \/ Unbounded(HalExecute)

SpecArc == Init /\ [][NextArc]_vars

\* Every command of the dispatcher, in sessions of at most MaxCalls calls
Envs == { [readable |-> r] : r \in SUBSET {HEATER_EXTRUDER, HEATER_BED} }

MoveGCodes ==
    { GCode(c, p) : c \in {"G0", "G1", None}, p \in Params({"X", "Y", "Z"}, {4}) }
    \cup { GCode("G1", p) : p \in {[n \in {"X"} |-> 4 * MaxWord], [n \in {"X"} |-> 2],
                                   [n \in {"E"} |-> 12]} }
    \cup { GCode(c, Merge(t, r)) :
             c \in {"G2", "G3"},
             t \in Params({"X", "Y"}, {4}),
             r \in Params({"I", "J"}, {4}) }

OffsetGCodes == { GCode("G92", p) : p \in Params({"X", "Y"}, {0, 4}) }

PlainGCodes ==
    { GCode(c, NoParams) :
        c \in {"G4", "G17", "G18", "G19", "G20", "G21", "G28", "G53", "G90",
               "G91", "M2", "M30", "M5", "M107", "M111", "M114", "G99"} }

SpindleGCodes ==
    { GCode("M3", p) : p \in Params({"S"}, {-1, 5000, SPINDLE_MAX_RPM + 1}) }
    \cup { GCode("M106", p) : p \in Params({"S"}, {0, 1}) }

HeaterGCodes ==
    { GCode(c, p) :
        c \in {"M104", "M109", "M140", "M190"},
        p \in Params({"S"}, {0, MIN_TEMPERATURE - 1, MIN_TEMPERATURE,
                             BED_MAX_TEMPERATURE + 1,
                             EXTRUDER_MAX_TEMPERATURE + 1}) }
    \cup {GCode("M105", NoParams)}

\* A unit-select line that also carries coordinate words
UnitGCodes ==
    { GCode(c, p) : c \in {"G20", "G21"}, p \in Params({"X", "Y"}, {4}) \ {NoParams} }

\* A feed speed or a pause on a line of every command
CommandNames ==
    {"G0", "G1", "G2", "G3", "G4", "G17", "G18", "G19", "G20", "G21", "G28", "G53",
     "G90", "G91", "G92", "M2", "M3", "M5", "M30", "M104", "M105", "M106", "M107",
     "M109", "M111", "M114", "M140", "M190", "G99", None}

FeedGCodes ==
    { GCode(c, p) :
        c \in CommandNames,
        p \in { [n \in {"F"} |-> 0], [n \in {"F"} |-> 500],
                [n \in {"F"} |-> STEPPER_MAX_VELOCITY_MM_PER_MIN + 1],
                [n \in {"P"} |-> -1], [n \in {"P"} |-> 1] } }

Next ==
    \/ \E g \in MoveGCodes : Counted(DoCommand(g, AllReadable))
    \/ \E g \in OffsetGCodes : Counted(DoCommand(g, AllReadable))
    \/ \E g \in PlainGCodes : Counted(DoCommand(g, AllReadable))
    \/ \E g \in SpindleGCodes : Counted(DoCommand(g, AllReadable))
    \/ \E g \in HeaterGCodes, env \in Envs : Counted(DoCommand(g, env))
    \/ \E g \in FeedGCodes : Counted(DoCommand(g, AllReadable))
    \/ \E g \in UnitGCodes : Counted(DoCommand(g, AllReadable))
    \/ Counted(Home)
    \/ Counted(Position)
    \/ Counted(Release)
    \/ Unbounded(Return)
    \/ Unbounded(HalExecute)

Spec == Init /\ [][Next]_vars

\* =============================================================== claims
\* What the returned call was
Returned == pc = "returned"

CommandCall == Returned /\ last.call = "do_command"

Cmd == read_command(last.gcode)

Ok == last.exc = NoExc

Raised(msg) == last.exc = GMachineException(msg)

\* The line's feed speed and pause are acceptable
ValidParameters ==
    /\ get(last.gcode, "F", last.before.velocity) > 0
    /\ get(last.gcode, "F", last.before.velocity) <= STEPPER_MAX_VELOCITY_MM_PER_MIN
    /\ get(last.gcode, "P", last.before.pause) >= 0

\* The quantized displacements and centre offsets the line asks for
RequestedDeltas == round(read_delta(last.before, last.gcode))

RequestedRadii == round(radius(last.gcode, Origin, last.before.convertCoordinates))

\* The working envelope: 0 .. table size on X, Y and Z, and 0 on E
InEnvelope(p) ==
    /\ 0 <= p.x /\ p.x <= TABLE_SIZE_X_MM
    /\ 0 <= p.y /\ p.y <= TABLE_SIZE_Y_MM
    /\ 0 <= p.z /\ p.z <= TABLE_SIZE_Z_MM
    /\ p.e = 0

\* The hardware calls that drive an actuator
Actuates(h) ==
    h.op \in {"move", "spindle_control", "fan_control", "heater_stop",
              "heater_start", "heater_wait"}

\* The positions in last.hw of the circular segments
CircularSegments ==
    { i \in 1..Len(last.hw) : last.hw[i].op = "move" /\ last.hw[i].gen.kind = "circular" }

\* -------------------------------------------------------------- geometry
\* sqrt(r2) <= t
RootLe(r2, t) == t >= 0 /\ r2 <= t * t

\* The four extremes of the circle of centre (ca, cb) and squared radius r2,
\* named by the two quadrants they separate, against [0, ma] x [0, mb]
ExtremeInside(side, ca, cb, r2, ma, mb) ==
    IF side = {4, 1} THEN RootLe(r2, ma - ca)
    ELSE IF side = {1, 2} THEN RootLe(r2, mb - cb)
    ELSE IF side = {2, 3} THEN RootLe(r2, ca)
    ELSE RootLe(r2, cb)

AllSides == {{4, 1}, {1, 2}, {2, 3}, {3, 4}}

\* The quadrant after q on the way round
Turn(q, direction) ==
    IF direction = CW THEN (IF q = 1 THEN 4 ELSE q - 1)
    ELSE (IF q = 4 THEN 1 ELSE q + 1)

\* The extremes passed from quadrant q to quadrant eq, eq # q
RECURSIVE SidesBetween(_, _, _)
SidesBetween(q, eq, direction) ==
    IF q = eq THEN {}
    ELSE {{q, Turn(q, direction)}} \cup SidesBetween(Turn(q, direction), eq, direction)

\* -1, 0 or 1: the sign of p * sqrt(m) - q * sqrt(n), for m, n >= 0
SgnRootDiff(p, m, q, n) ==
    LET P == Sgn(p) * p * p * m
        Q == Sgn(q) * q * q * n
    IN  Sgn(P - Q)

\* The extremes an arc passes: from the start (ca - ra, cb - rb) round to
\* the direction of the target, which is the direction
\* (sa * sqrt(A), sb * sqrt(B)) from the centre
SidesPassed(da, db, ra, rb, direction) ==
    LET sq == quarter(-ra, -rb)
        sa == Sgn(da - ra)
        sb == IF db - rb < 0 THEN -1 ELSE 1
        eq == quarter(sa, sb)
        \* the cross product start x end
        turn == SgnRootDiff(-ra * sb, Abs(db - rb), -rb * sa, Abs(da - ra))
        ahead == IF direction = CCW THEN turn >= 0 ELSE turn <= 0
    IN  IF da = 0 /\ db = 0 THEN AllSides
        ELSE IF sq # eq THEN SidesBetween(sq, eq, direction)
        ELSE IF ahead THEN {}
        ELSE AllSides

\* The circular segment seg, started at position p to cover the in-plane
\* displacement (da, db), stays inside the envelope: every extreme it
\* passes and its end point
ArcInside(seg, p, d) ==
    LET a == plane_axes(seg.plane)[1]
        b == plane_axes(seg.plane)[2]
        ra == seg.radius[a]
        rb == seg.radius[b]
        r2 == ra * ra + rb * rb
    IN  /\ \A side \in SidesPassed(d[a], d[b], ra, rb, seg.direction) :
              ExtremeInside(side, p[a] + ra, p[b] + rb, r2, table_size(a), table_size(b))
        /\ InEnvelope(Add(p, seg.delta))

\* ------------------------------------------------------------------- C1
\* C1: whenever a circular move dispatches a circular segment, every point
\* of the arc from the start to the computed end is inside the envelope:
\* each extreme of the circle the arc passes on its way, the one it passes
\* to enter its last quadrant included, and the end point itself.
C1_ArcStaysInside ==
    (CommandCall /\ Cmd \in {"G2", "G3"}) =>
        \A i \in CircularSegments :
            ArcInside(last.hw[i].gen, last.before.position,
                      Sub(position, last.before.position))

\* ------------------------------------------------------------------- C2
\* C2: the position is inside the envelope between calls and after every
\* call, whether the call succeeded or failed.
C2_PositionInEnvelope == InEnvelope(position)

\* An arc that succeeded and ended on the far edge of the table
C2_Witness ==
    /\ CommandCall /\ Cmd \in {"G2", "G3"} /\ Ok
    /\ position # last.before.position
    /\ position.x = TABLE_SIZE_X_MM

\* ------------------------------------------------------------------- C3
\* C3: a command that fails with a machine fault leaves every field of the
\* machine as it was and has driven no actuator.
C3_FaultLeavesNoTrace ==
    (CommandCall /\ last.exc.kind = "GMachineException") =>
        /\ Self = last.before
        /\ \A i \in 1..Len(last.hw) : ~Actuates(last.hw[i])

\* A heater command for a running heater whose sensor does not answer
C3_Witness ==
    /\ CommandCall /\ Raised("can not measure temperature")
    /\ Cmd \in {"M104", "M109"}
    /\ HEATER_EXTRUDER \in DOMAIN last.before.heaters

\* ------------------------------------------------------------------- C4
\* A G2 or G3 line with acceptable F and P whose centre offset is zero on
\* both axes of the plane
ZeroRadiusCall ==
    /\ CommandCall /\ Cmd \in {"G2", "G3"} /\ ValidParameters
    /\ LET r == radius(last.gcode, Origin, last.before.convertCoordinates)
           a == plane_axes(last.before.plane)[1]
           b == plane_axes(last.before.plane)[2]
       IN  r[a] = 0 /\ r[b] = 0

\* C4 as stated: a circular move whose centre offset is zero in the plane
\* fails with the zero radius fault whatever the displacement, and
\* dispatches nothing.
C4_ZeroRadiusAlwaysZeroRadiusFault ==
    ZeroRadiusCall => Raised("circle radius is zero") /\ last.hw = <<>>

\* C4 amended: a circular move whose centre offset is zero in the plane
\* always fails, dispatches nothing and leaves the machine as it was; the
\* fault is the zero radius fault when the quantized end point is inside
\* the envelope and the out of range fault when it is outside.
C4_ZeroRadiusFails ==
    ZeroRadiusCall =>
        /\ last.hw = <<>>
        /\ Self = last.before
        /\ (\A d \in RequestedDeltas : InEnvelope(Add(last.before.position, d)))
              => Raised("circle radius is zero")
        /\ (\A d \in RequestedDeltas : ~InEnvelope(Add(last.before.position, d)))
              => Raised("out of effective area")

\* A zero radius arc to another point of the table
C4_Witness ==
    /\ ZeroRadiusCall /\ Raised("circle radius is zero")
    /\ \A d \in RequestedDeltas : ~is_zero(d)

\* ------------------------------------------------------------------- C5
\* C5: whatever the line, do_command returns or fails with the machine
\* fault; no other kind of error leaves it.
C5_OnlyMachineFaults ==
    CommandCall => last.exc.kind \in {"none", "GMachineException"}

\* ------------------------------------------------------------------- C6
\* A G0 or G1 line with acceptable F and P
LinearCall == CommandCall /\ Cmd \in {"G0", "G1"} /\ ValidParameters

\* C6: a linear move whose quantized target is outside the envelope on any
\* axis fails with the out of range fault, dispatches no segment and
\* leaves the position as it was.
C6_OutOfRangeLinearFails ==
    (LinearCall /\ \A d \in RequestedDeltas : ~InEnvelope(Add(last.before.position, d)))
        => /\ Raised("out of effective area")
           /\ last.hw = <<>>
           /\ position = last.before.position

\* A move from inside the table to a target outside it
C6_Witness ==
    /\ LinearCall
    /\ \A d \in RequestedDeltas : ~InEnvelope(Add(last.before.position, d))
    /\ last.before.position # Origin

\* ------------------------------------------------------------------- C7
\* The feed of a linear move: the maximum for G0, the line's F or the
\* stored velocity for G1
LinearFeed ==
    IF Cmd = "G0" THEN STEPPER_MAX_VELOCITY_MM_PER_MIN
    ELSE get(last.gcode, "F", last.before.velocity)

\* C7: a linear move whose displacement quantizes to zero succeeds and
\* dispatches nothing; one whose quantized displacement is not zero and
\* whose target is inside the envelope dispatches exactly one linear
\* segment of that displacement, and the position becomes the old position
\* plus the displacement.
C7_LinearMove ==
    LinearCall =>
        /\ (\A d \in RequestedDeltas : is_zero(d))
              => Ok /\ last.hw = <<>> /\ position = last.before.position
        /\ (\A d \in RequestedDeltas :
                ~is_zero(d) /\ InEnvelope(Add(last.before.position, d)))
              => /\ Ok
                 /\ \E d \in RequestedDeltas :
                       /\ last.hw = <<[op |-> "move",
                                       gen |-> PulseGeneratorLinear(d, LinearFeed)]>>
                       /\ position = Add(last.before.position, d)

\* A displacement of a quarter of a pulse: not zero, quantized to zero
C7_Witness ==
    /\ LinearCall
    /\ ~is_zero(read_delta(last.before, last.gcode))
    /\ \A d \in RequestedDeltas : is_zero(d)
    /\ last.before.position # Origin

\* ------------------------------------------------------------------- C8
\* A G2 or G3 line with acceptable F and P, a zero displacement in the
\* plane, a non-zero radius and a target inside the envelope
FullCircleCall ==
    /\ CommandCall /\ Cmd \in {"G2", "G3"} /\ ValidParameters
    /\ LET a == plane_axes(last.before.plane)[1]
           b == plane_axes(last.before.plane)[2]
       IN  /\ \A d \in RequestedDeltas :
                 d[a] = 0 /\ d[b] = 0 /\ InEnvelope(Add(last.before.position, d))
           /\ \A r \in RequestedRadii : r[a] # 0 \/ r[b] # 0

\* The four extremes of the circle of centre offset r are inside
CircleFits(r) ==
    LET a == plane_axes(last.before.plane)[1]
        b == plane_axes(last.before.plane)[2]
    IN  \A side \in AllSides :
            ExtremeInside(side, last.before.position[a] + r[a],
                          last.before.position[b] + r[b],
                          r[a] * r[a] + r[b] * r[b], table_size(a), table_size(b))

\* C8: a full circle succeeds only if all four extremes of the circle are
\* inside the envelope, and fails with the out of range fault, dispatching
\* nothing, if any of them is outside.
C8_FullCircleChecksFourSides ==
    FullCircleCall =>
        /\ (\A r \in RequestedRadii : CircleFits(r))
              => Ok /\ CircularSegments = {1}
        /\ (\A r \in RequestedRadii : ~CircleFits(r))
              => /\ Raised("out of effective area")
                 /\ last.hw = <<>>
                 /\ position = last.before.position

\* A full circle with exactly one extreme outside the table
C8_Witness ==
    /\ FullCircleCall
    /\ LET a == plane_axes(last.before.plane)[1]
           b == plane_axes(last.before.plane)[2]
       IN  \A r \in RequestedRadii :
             Cardinality({ side \in AllSides :
                 ~ExtremeInside(side, last.before.position[a] + r[a],
                                last.before.position[b] + r[b],
                                r[a] * r[a] + r[b] * r[b],
                                table_size(a), table_size(b)) }) = 1

\* ------------------------------------------------------------------- C9
\* home() called directly or through a G28 line with acceptable F and P
HomeCall ==
    /\ Returned
    /\ \/ last.call = "home"
       \/ last.call = "do_command" /\ Cmd = "G28" /\ ValidParameters

\* The segments of a homing from position p: Z to zero, then X and Y
HomeSegments(p) ==
    (IF p.z # 0
     THEN <<[op |-> "move",
             gen |-> PulseGeneratorLinear(Coordinates(0, 0, -p.z, 0),
                                          STEPPER_MAX_VELOCITY_MM_PER_MIN)]>>
     ELSE <<>>)
    \o (IF p.x # 0 \/ p.y # 0
        THEN <<[op |-> "move",
                gen |-> PulseGeneratorLinear(Coordinates(-p.x, -p.y, 0, 0),
                                             STEPPER_MAX_VELOCITY_MM_PER_MIN)]>>
        ELSE <<>>)

\* C9: from any position inside the envelope homing never fails, ends at
\* X = Y = Z = 0 with the auxiliary axis unchanged, and its Z segment
\* comes before its XY segment.
C9_HomeNeverFails ==
    HomeCall =>
        /\ Ok
        /\ position = Coordinates(0, 0, 0, last.before.position.e)
        /\ last.hw = HomeSegments(last.before.position)

\* A homing from a position off zero on Z and on X
C9_Witness ==
    /\ HomeCall
    /\ last.before.position.z # 0
    /\ last.before.position.x # 0

\* ------------------------------------------------------------------ C10
\* The coordinate words of a line
CoordinateWords(gcode) ==
    [n \in DOMAIN gcode.params \cap {"X", "Y", "Z", "E"} |-> gcode.params[n]]

\* C10: after a G92 line with coordinate words in absolute mode, an absolute
\* move to the same coordinate words has a zero displacement: it succeeds, dispatches
\* nothing and leaves the position; and G53 brings the offset back to zero.
C10_OffsetThenSameTargetIsNoMove ==
    (CommandCall /\ Cmd = "G92" /\ Ok /\ absoluteCoordinates
        /\ has_coordinates(last.gcode)) =>
        /\ \A d \in round(read_delta(Self, GCode("G1", CoordinateWords(last.gcode)))) :
              is_zero(d)
        /\ \A c \in do_command(Self, GCode("G1", CoordinateWords(last.gcode)),
                               AllReadable) :
              c.exc = NoExc /\ c.hw = <<>> /\ c.st.position = position
        /\ \A c \in do_command(Self, GCode("G53", NoParams), AllReadable) :
              c.exc = NoExc /\ c.st.local = Origin

\* ------------------------------------------------------------------ C11
\* C11: after a successful M2 or M30 every program-configurable field has
\* its construction-time default: velocity 1000, spindle speed 1000, pause
\* 0, local offset zero, unit multiplier 1.0, absolute mode, plane XY,
\* whatever the stored F and P were and whatever F and P the line carries.
C11_ProgramEndRestoresDefaults ==
    (CommandCall /\ Cmd \in {"M2", "M30"} /\ Ok) =>
        /\ velocity = 1000
        /\ spindle_rpm = 1000
        /\ pause = 0
        /\ local = Origin
        /\ convertCoordinates = CONV_MM
        /\ absoluteCoordinates
        /\ plane = PLANE_XY

\* ------------------------------------------------------------------ C12
\* A heater line with acceptable F and P, and the heater it is about
HeaterCall ==
    CommandCall /\ Cmd \in {"M104", "M109", "M140", "M190"} /\ ValidParameters

HeaterOf(cmd) == IF cmd \in {"M104", "M109"} THEN HEATER_EXTRUDER ELSE HEATER_BED

\* C12: a heater command with target zero always stops the handle of its
\* heater and removes it from the map: afterwards the heater's reported
\* target is 0 and none of its handles is running, in whatever state the
\* command was issued.
C12_ZeroTargetStopsHeater ==
    (HeaterCall /\ has(last.gcode, "S") /\ get(last.gcode, "S", 0) = 0) =>
        /\ HeaterOf(Cmd) \notin DOMAIN heaters
        /\ running[HeaterOf(Cmd)] = 0

\* ------------------------------------------------------------------ C13
\* release() has not been called
BeforeRelease == pc # "released" /\ ~(Returned /\ last.call = "release")

\* The returned call is a successful heater command for the heater h
HeaterSet(h) == HeaterCall /\ Ok /\ HeaterOf(Cmd) = h

\* C13: before release, each heater has at most one running handle, which
\* is the one in the map: a handle that left the map has been stopped. The
\* map holds a handle for a heater exactly if the last successful heater
\* command for it had a non-zero target, and a successful command with a
\* new non-zero target stops the handle in the map before it starts the
\* replacement.
C13_OneHandlePerHeater ==
    BeforeRelease =>
        \A h \in {HEATER_EXTRUDER, HEATER_BED} :
            /\ running[h] = IF h \in DOMAIN heaters THEN 1 ELSE 0
            /\ (Returned /\ HeaterSet(h)) =>
                  /\ h \in DOMAIN heaters <=> get(last.gcode, "S", 0) # 0
                  /\ h \in DOMAIN heaters =>
                        heaters[h].target = get(last.gcode, "S", 0)
                  /\ (get(last.gcode, "S", 0) # 0 /\ h \in DOMAIN last.before.heaters)
                        => /\ Len(last.hw) >= 2
                           /\ last.hw[1] = [op |-> "heater_stop", heater |-> h,
                                            target |-> last.before.heaters[h].target]
                           /\ last.hw[2] = [op |-> "heater_start", heater |-> h,
                                            target |-> get(last.gcode, "S", 0)]
            /\ (Returned /\ ~HeaterSet(h)) =>
                  /\ h \in DOMAIN heaters <=> h \in DOMAIN last.before.heaters
                  /\ h \in DOMAIN heaters => heaters[h] = last.before.heaters[h]

\* A running heater is given a new non-zero target
C13_Witness ==
    /\ HeaterCall /\ Ok
    /\ HeaterOf(Cmd) \in DOMAIN last.before.heaters
    /\ HeaterOf(Cmd) \in DOMAIN heaters
    /\ heaters[HeaterOf(Cmd)] # last.before.heaters[HeaterOf(Cmd)]

\* ------------------------------------------------------------------ C14
\* The highest target a heater accepts
MaxTemperature(h) ==
    IF h = HEATER_EXTRUDER THEN EXTRUDER_MAX_TEMPERATURE ELSE BED_MAX_TEMPERATURE

\* The line's target is not zero and is above the heater's maximum or below
\* the minimum
BadTarget ==
    /\ has(last.gcode, "S")
    /\ get(last.gcode, "S", 0) # 0
    /\ \/ get(last.gcode, "S", 0) > MaxTemperature(HeaterOf(Cmd))
       \/ get(last.gcode, "S", 0) < MIN_TEMPERATURE

\* C14: a heater command with a non-zero target above the heater's maximum
\* or below the minimum fails with "bad temperature", and one without S
\* fails with "temperature is not specified"; either way the handles are as
\* they were: none stopped, none started, the map unchanged.
C14_BadTargetLeavesHeater ==
    HeaterCall =>
        /\ BadTarget => Raised("bad temperature")
        /\ ~has(last.gcode, "S") => Raised("temperature is not specified")
        /\ (BadTarget \/ ~has(last.gcode, "S")) =>
              /\ heaters = last.before.heaters
              /\ running = last.hardware.running
              /\ last.hw = <<>>

\* A running bed heater is given a target above the bed's maximum
C14_Witness ==
    /\ HeaterCall /\ BadTarget
    /\ HeaterOf(Cmd) = HEATER_BED
    /\ HEATER_BED \in DOMAIN last.before.heaters
    /\ get(last.gcode, "S", 0) > BED_MAX_TEMPERATURE
    /\ get(last.gcode, "S", 0) <= EXTRUDER_MAX_TEMPERATURE

\* ------------------------------------------------------------------ C15
\* The number of segments enqueued and not executed when the returned call
\* made its i-th hardware call, had the hardware executed none meanwhile
PendingBefore(i) == hal_run(last.hardware, last.hw, i - 1).pending

\* C15: with the hardware layer executing the enqueued segments on its
\* own, every spindle control call (M3, M5, release) and every start of a
\* dwell (G4) is made, and every position reply (M114, position()) is
\* given, only after hal.join has returned and with no segment enqueued
\* since: no motion of this or an earlier command is in flight.
C15_IdleBeforeSpindleDwellReply ==
    Returned =>
        /\ \A i \in 1..Len(last.hw) :
              last.hw[i].op \in {"spindle_control", "sleep"} =>
                  /\ PendingBefore(i) = 0
                  /\ \E j \in 1..(i - 1) : last.hw[j].op = "join"
        /\ last.answer.kind = "position" =>
              /\ pending = 0
              /\ \E j \in 1..Len(last.hw) : last.hw[j].op = "join"

\* The spindle is switched while segments of earlier commands are enqueued
C15_Witness ==
    /\ CommandCall /\ Cmd \in {"M3", "M5"} /\ Ok
    /\ last.hardware.pending > 0
    /\ \E i \in 1..Len(last.hw) : last.hw[i].op = "spindle_control"

\* ------------------------------------------------------------------ C16
\* The fields of the machine other than the stored velocity and pause
Others(st) ==
    [position |-> st.position, spindle_rpm |-> st.spindle_rpm, local |-> st.local,
     convertCoordinates |-> st.convertCoordinates,
     absoluteCoordinates |-> st.absoluteCoordinates, plane |-> st.plane,
     fan_state |-> st.fan_state, heaters |-> st.heaters]

UnitSelect == CommandCall /\ command(last.gcode) \in {"G20", "G21"}

\* C17: a line whose command is G20 or G21 enqueues no segment and leaves
\* position, local offset, coordinate mode, plane, spindle default, fan and
\* heater map as they were, with or without coordinate words on the line;
\* when it succeeds the multiplier is the inch one after G20 and the
\* millimetre one after G21.
C17_UnitSelectChangesOnlyMultiplier ==
    UnitSelect =>
        /\ \A i \in 1..Len(last.hw) : last.hw[i].op # "move"
        /\ position = last.before.position
        /\ local = last.before.local
        /\ absoluteCoordinates = last.before.absoluteCoordinates
        /\ plane = last.before.plane
        /\ spindle_rpm = last.before.spindle_rpm
        /\ fan_state = last.before.fan_state
        /\ heaters = last.before.heaters
        /\ Ok => convertCoordinates =
                    (IF command(last.gcode) = "G20" THEN CONV_INCH ELSE CONV_MM)
        /\ ~Ok => convertCoordinates = last.before.convertCoordinates

\* G20 with coordinate words switches to inches
C17_Witness ==
    /\ UnitSelect /\ Ok
    /\ has_coordinates(last.gcode)
    /\ last.before.convertCoordinates = CONV_MM
    /\ convertCoordinates = CONV_INCH

\* ------------------------------------------------------------------ C18
ReleaseCall == Returned /\ last.call = "release"

\* The positions in last.hw of the calls of one kind
CallsOf(op) == { i \in 1..Len(last.hw) : last.hw[i].op = op }

\* C18: release() succeeds, and its hardware calls are, in this order, the
\* segments of home (which bring x, y and z to zero), a join, the spindle
\* set to zero, one stop for every handle of the heater map and no other,
\* and hal.deinit as the last call. No heater handle is running when
\* release returns or afterwards.
C18_ReleaseOrder ==
    /\ ReleaseCall =>
          /\ Ok
          /\ position.x = 0 /\ position.y = 0 /\ position.z = 0
          /\ \E s \in 2..Len(last.hw) :
                /\ CallsOf("spindle_control") = {s}
                /\ last.hw[s].percent = 0
                /\ last.hw[s - 1].op = "join"
                /\ \A i \in 1..(s - 2) : last.hw[i].op = "move"
                /\ \A i \in (s + 1)..(Len(last.hw) - 1) : last.hw[i].op = "heater_stop"
                /\ CallsOf("deinit") = {Len(last.hw)}
          /\ \A h \in {HEATER_EXTRUDER, HEATER_BED} :
                Cardinality({ i \in CallsOf("heater_stop") : last.hw[i].heater = h })
                    = (IF h \in DOMAIN last.before.heaters THEN 1 ELSE 0)
          /\ \A h \in {HEATER_EXTRUDER, HEATER_BED} : running[h] = 0
    /\ pc = "released" => \A h \in {HEATER_EXTRUDER, HEATER_BED} : running[h] = 0

\* release() with both heaters running
C18_Witness ==
    /\ ReleaseCall /\ Ok
    /\ DOMAIN last.before.heaters = {HEATER_EXTRUDER, HEATER_BED}
    /\ last.hardware.running[HEATER_EXTRUDER] = 1
    /\ last.hardware.running[HEATER_BED] = 1
    /\ CallsOf("deinit") # {}

\* ------------------------------------------------------------------ C19
ArcCall == CommandCall /\ Cmd \in {"G2", "G3"}

\* The quantized point the line names, in machine coordinates
CommandedTargets ==
    IF last.before.absoluteCoordinates
    THEN round(Add(coordinates(last.gcode, last.before.position,
                               last.before.convertCoordinates),
                   last.before.local))
    ELSE round(Add(last.before.position,
                   coordinates(last.gcode, Origin, last.before.convertCoordinates)))

\* C19: a successful G2/G3 enqueues a circular segment first and nothing
\* else, or one linear segment after it whose displacement is the quantized
\* requested delta minus the circle end and is not zero; the position it
\* commits is the old one plus the quantized requested delta, which is the
\* quantized commanded target. A failed G2/G3 has enqueued nothing and has
\* left the machine as it was.
C19_ArcSegmentsAndCommit ==
    ArcCall =>
        /\ Ok =>
              /\ \E d \in RequestedDeltas :
                    /\ position = Add(last.before.position, d)
                    /\ Len(last.hw) \in {1, 2}
                    /\ last.hw[1].op = "move" /\ last.hw[1].gen.kind = "circular"
                    /\ Len(last.hw) = 1 => d = last.hw[1].gen.delta
                    /\ Len(last.hw) = 2 =>
                          /\ last.hw[2].op = "move" /\ last.hw[2].gen.kind = "linear"
                          /\ last.hw[2].gen.delta = Sub(d, last.hw[1].gen.delta)
                          /\ last.hw[2].gen.delta # Origin
              /\ position \in CommandedTargets
        /\ ~Ok => last.hw = <<>> /\ Others(Self) = Others(last.before)

\* An arc whose target is off the circle: a linear segment finishes it
C19_Witness ==
    /\ ArcCall /\ Ok
    /\ Len(last.hw) = 2
    /\ last.hw[2].gen.kind = "linear"
    /\ position # Add(last.before.position, last.hw[1].gen.delta)

\* ------------------------------------------------------------------ C20
\* The axis each coordinate letter names
AxisOf(letter) ==
    IF letter = "X" THEN "x" ELSE IF letter = "Y" THEN "y"
    ELSE IF letter = "Z" THEN "z" ELSE "e"

\* C20: a successful G0 or G1 in absolute mode leaves the position of every
\* axis the line does not name as it was, whatever the local offset.
C20_UnnamedAxesStay ==
    (CommandCall /\ Cmd \in {"G0", "G1"} /\ Ok /\ last.before.absoluteCoordinates) =>
        \A letter \in {"X", "Y", "Z", "E"} :
            ~has(last.gcode, letter) =>
                position[AxisOf(letter)] = last.before.position[AxisOf(letter)]

====
